---- MODULE Spec2Model ----
(***************************************************************************)
(* Model of download.py, the Shopee Philippines live replay downloader.    *)
(*                                                                         *)
(* Strings whose structure the code inspects (file names, URLs, playlist   *)
(* lines) are sequences of tokens, so that endswith('.ts'),                *)
(* startswith('http'), strip() and rsplit('/', 1) are computed.  Optional  *)
(* values (Python None) are records with a field "some".  The destination  *)
(* directory is the set of file names it holds.  Every blocking call       *)
(* (HTTP request, console read, remux) is one step; its outcome is chosen  *)
(* by the environment.                                                     *)
(***************************************************************************)
EXTENDS Integers, Sequences, FiniteSets, TLC

(* ---------------------------- bounds ----------------------------------- *)
\* longest record list the session resolver returns
MaxRecords == 2
\* longest playlist, in lines
MaxLines == 3
MaxRef == 2

(* ------------------------- optional values ----------------------------- *)
None == [some |-> FALSE]
Some(v) == [some |-> TRUE, val |-> v]
\* no value: .get was called on a value that is not an object, which raises an
\* AttributeError that no except clause of the script names
AttributeError == [some |-> FALSE, error |-> "AttributeError"]
\* a value that is true and has no len(): a non-zero number, the value true
NotSized == [some |-> TRUE, sized |-> FALSE]

\* truth value of an optional string / an optional sequence ("if x:")
TruthyStr(o) == o.some /\ o.val /= ""
TruthySeq(o) == o.some /\ (o = NotSized \/ o.val /= <<>>)

(* ----------------------------- text ------------------------------------ *)
Digits == <<"0", "1", "2", "3", "4", "5", "6", "7", "8", "9">>
\* f'{index}' for the indices the model reaches
Str(n) == Digits[n + 1]

\* str.endswith / str.startswith('http') on token sequences
EndsWith(s, tok) == Len(s) > 0 /\ s[Len(s)] = tok
\* the tokens whose text begins with the four characters http
HttpTokens == {"http:", "https:", "httpx"}
StartsWithHttp(s) == Len(s) > 0 /\ s[1] \in HttpTokens

Whitespace == {" ", "\r"}
RECURSIVE LStrip(_)
LStrip(s) == IF s /= <<>> /\ Head(s) \in Whitespace THEN LStrip(Tail(s)) ELSE s
RECURSIVE RStrip(_)
RStrip(s) ==
    IF s /= <<>> /\ s[Len(s)] \in Whitespace THEN RStrip(SubSeq(s, 1, Len(s) - 1)) ELSE s
\* str.strip()
Strip(s) == LStrip(RStrip(s))

\* index of the rightmost "/" token of s, 0 when there is none
RECURSIVE LastSlash(_, _)
LastSlash(s, k) == IF k = 0 THEN 0 ELSE IF s[k] = "/" THEN k ELSE LastSlash(s, k - 1)
\* no split at all
RsplitHeadWhole(s) == s
\* s.rsplit('/', 1)[0]
RsplitHead(s) ==
    IF LastSlash(s, Len(s)) = 0 THEN s ELSE SubSeq(s, 1, LastSlash(s, Len(s)) - 1)

(* --------------------------- file names -------------------------------- *)
\* f'segment_{index}.ts'
SegmentName(index) == <<"segment_", Str(index), ".ts">>
ConcatName == <<"concat", ".txt">>
\* f'shopee_replay_{record_id}.mp4'
DefaultOutput(rid) == <<"shopee_replay_", rid, ".mp4">>

\* what the user may type at the output-file prompt (<<>> is an empty line)
TypedNames ==
    { <<>>, <<"out", ".mp4">>, <<"a", ".ts">>, SegmentName(1), ConcatName }

\* what an earlier run may have left in the destination directory
Leftovers == { SegmentName(1), ConcatName }

(* ------------------------ clear_ts_files ------------------------------- *)
\* a cleanup that removes nothing
clear_ts_files_none(d) == d
\* lines 7-11: every file whose name ends in .ts is removed
clear_ts_files(d) == { f \in d : ~EndsWith(f, ".ts") }

(* ------------------------- parse_shopee_url ---------------------------- *)
\* query strings of entered URLs, as sequences of key=value pairs
Pair(key, value) == [k |-> key, v |-> value]
Queries ==
    { <<>>,
      << Pair("session", "a") >>,
      << Pair("record", "a") >>,
      << Pair("session", ""), Pair("record", "a") >>,
      << Pair("room_id", "a"), Pair("record", "a") >>,
      << Pair("record", "b"), Pair("session", "a") >>,
      << Pair("session", "a"), Pair("record", "") >>,
      << Pair("session", ""), Pair("session", "a"), Pair("record", ""), Pair("record", "b") >> }

\* parse_qs: the values of key in order, blank values dropped
QsValues(query, key) == SelectSeq(query, LAMBDA p : p.k = key /\ p.v /= "")
\* query_params.get(key, [None])[0]
QsFirst(query, key) ==
    IF QsValues(query, key) = <<>> THEN None ELSE Some(QsValues(query, key)[1].v)

\* lines 13-31: None when urlparse raises, else the three parameters
parse_shopee_url(url) ==
    IF url.malformed THEN None
    ELSE Some([session |-> QsFirst(url.query, "session"),
               record  |-> QsFirst(url.query, "record"),
               room_id |-> QsFirst(url.query, "room_id")])

\* what the first prompt may receive: a line, which after strip() is a string
\* that starts with https://live.shopee.ph or anything else, or the end of input
UrlInputs == [kind : {"url"}, malformed : BOOLEAN, query : Queries]
PlainInputs == [kind : {"plain"}, text : {"", "a"}]
EofInputs == [kind : {"eof"}]
UserInputs == UrlInputs \cup PlainInputs \cup EofInputs

(* --------------------------- get_record_ids ---------------------------- *)
RecordIds == {"a", "b"}
RecordLists(max) == UNION { [1..n -> RecordIds] : n \in 0..max }
\* outcomes of GET /api/v1/replay?session_id=..., with lists of at most max records
\* "net": the request fails; "json": the body is not JSON; "notobject": the body
\* is JSON but not an object; "body": an object, whose "data" is an object (or
\* is missing) or is something else (null, a list, a string). record_ids, when
\* present, is a sequence of ids (a list; a string or an object is iterated the
\* same way; null, 0 and "" are false like the empty list) or a value that is
\* true and has no len() (ids_sized FALSE)
SessionResponses(max) ==
    [kind : {"net", "json", "notobject"}]
      \cup [kind : {"body"}, err_code : {0, 1}, data_object : {FALSE}]
      \cup [kind : {"body"}, err_code : {0, 1}, data_object : {TRUE}, has_ids : {FALSE}]
      \cup [kind : {"body"}, err_code : {0, 1}, data_object : {TRUE}, has_ids : {TRUE},
            ids_sized : {FALSE}]
      \cup [kind : {"body"}, err_code : {0, 1}, data_object : {TRUE}, has_ids : {TRUE},
            ids_sized : {TRUE}, record_ids : RecordLists(max)]

\* lines 33-51: data.get of line 40 and .get('record_ids') of line 44 raise
\* outside the two except clauses when their receiver is not an object
get_record_ids(resp) ==
    IF resp.kind \in {"net", "json"} THEN None
    ELSE IF resp.kind = "notobject" THEN AttributeError
    ELSE IF resp.err_code /= 0 THEN None
    ELSE IF ~resp.data_object THEN AttributeError
    ELSE IF ~resp.has_ids THEN Some(<<>>)
    ELSE IF ~resp.ids_sized THEN NotSized
    ELSE Some(resp.record_ids)

(* ---------------------------- get_m3u8_url ----------------------------- *)
PlaylistUrl == <<"https:", "/", "/", "cdn", "/", "path", "/", "master.m3u8">>
\* outcomes of GET /api/v1/replay/<record_id>
\* the kinds are those of SessionResponses; data_object is FALSE when "data" or
\* its "replay_info" is present and is not an object
ManifestResponses ==
    [kind : {"net", "json", "notobject"}]
      \cup [kind : {"body"}, err_code : {1}]
      \cup [kind : {"body"}, err_code : {0}, data_object : {FALSE}]
      \cup [kind : {"body"}, err_code : {0}, data_object : {TRUE}, has_url : {FALSE}]
      \cup [kind : {"body"}, err_code : {0}, data_object : {TRUE}, has_url : {TRUE},
            record_url : {<<>>, PlaylistUrl}]

\* a resolver that turns an empty record_url into None
get_m3u8_url_nonempty(resp) ==
    IF resp.kind \in {"net", "json"} THEN None
    ELSE IF resp.kind = "notobject" THEN AttributeError
    ELSE IF resp.err_code /= 0 THEN None
    ELSE IF ~resp.data_object THEN AttributeError
    ELSE IF resp.has_url /\ resp.record_url /= <<>> THEN Some(resp.record_url) ELSE None
\* lines 53-71: data.get of line 60 and the .get calls of lines 64-65 raise
\* outside the two except clauses when their receiver is not an object
get_m3u8_url(resp) ==
    IF resp.kind \in {"net", "json"} THEN None
    ELSE IF resp.kind = "notobject" THEN AttributeError
    ELSE IF resp.err_code /= 0 THEN None
    ELSE IF ~resp.data_object THEN AttributeError
    ELSE IF resp.has_url THEN Some(resp.record_url) ELSE Some(<<>>)

(* ------------------------------ playlist ------------------------------- *)
PlaylistLines ==
    { <<"#EXTINF">>,
      <<"chunk", ".ts">>,
      <<"https:", "/", "/", "h", "/", "seg", ".ts", "\r">> }
\* playlists of at most max lines
Playlists(max) == UNION { [1..n -> PlaylistLines] : n \in 0..max }

\* a filter that keeps every line
RECURSIVE MediaLinesUnfiltered(_)
MediaLinesUnfiltered(lines) ==
    IF lines = <<>> THEN <<>>
    ELSE <<Strip(Head(lines))>> \o MediaLinesUnfiltered(Tail(lines))
\* line 93: the stripped lines that end in .ts, in file order
RECURSIVE MediaLines(_)
MediaLines(lines) ==
    IF lines = <<>> THEN <<>>
    ELSE IF EndsWith(Strip(Head(lines)), ".ts")
         THEN <<Strip(Head(lines))>> \o MediaLines(Tail(lines))
         ELSE MediaLines(Tail(lines))

\* playlist URLs that requests.get accepts: they carry a scheme
PlaylistUrls ==
    { PlaylistUrl,
      <<"https:", "/", "/", "cdn">>,
      <<"http:", "/", "/", "cdn", "/", "master.m3u8", "?", "next=", "/", "x">> }
\* the pieces a segment reference is made of in front of its .ts suffix
RefTokens == {"https:", "httpx", "ftp:", "/", "seg"}
\* the stripped lines that end in .ts, with at most max tokens before .ts
SegmentRefs(max) ==
    { r \o <<".ts">> : r \in UNION { [1..n -> RefTokens] : n \in 0..max } }

\* lines 107-110
MediaUrl(m3u8, media_line) ==
    IF StartsWithHttp(media_line) THEN media_line
    ELSE RsplitHead(m3u8) \o <<"/">> \o media_line

(* ------------------------- concatenation ------------------------------- *)
\* lines 126-129: the names segment_0 .. segment_{n-1} that exist, in index order
RECURSIVE ConcatList(_, _, _)
ConcatList(d, k, n) ==
    IF k >= n THEN <<>>
    ELSE IF SegmentName(k) \in d
         THEN <<SegmentName(k)>> \o ConcatList(d, k + 1, n)
         ELSE ConcatList(d, k + 1, n)

\* a final cleanup that forgets the concat file
FinalCleanupSegmentsOnly(d, n) == d \ { SegmentName(k) : k \in 0..(n - 1) }
\* lines 143-151: segment_0 .. segment_{n-1} and concat.txt are removed
FinalCleanup(d, n) == (d \ { SegmentName(k) : k \in 0..(n - 1) }) \ { ConcatName }

(* ------------------------- decisions of the code ----------------------- *)
\* a check that only looks at the parse result
ParsedOkNoSession(parsed) == parsed.some
\* line 166: parsed_data and parsed_data['session']
ParsedOk(parsed) == parsed.some /\ TruthyStr(parsed.val.session)

\* a dispatch that always resolves the session
UseRecordNever(rid) == FALSE
\* line 181: if record_id
UseRecord(rid) == TruthyStr(rid)

\* lines 105, 120-122: the next index, whether the fetch succeeded or not
NextIndex(index, ok, n) == index + 1

\* lines 197-198
Tally(count, ok) == IF ok THEN count + 1 ELSE count

\* lines 184-186: exit(1) when the download failed, else the script ends
SingleExit(ok) == IF ok THEN 0 ELSE 1

\* lines 133-154: False when the remux raised, True otherwise
DlResult(remux_ok, fetched, n) == remux_ok

\* a loop that never finds its list exhausted
LoopDoneNever(i, n) == FALSE
\* line 194: the for loop ends when the 1-based position has passed the list
LoopDone(i, n) == i > n

\* a cleanup that removes without looking
FinalRemoveCallsUnguarded(d, n) == { SegmentName(k) : k \in 0..(n - 1) } \cup { ConcatName }
\* lines 144-151: the names os.remove is called with: those that exist
FinalRemoveCalls(d, n) ==
    { f \in { SegmentName(k) : k \in 0..(n - 1) } \cup { ConcatName } : f \in d }

\* the calls a download has made so far
NoCalls == [prompts |-> 0, writes |-> 0, remux |-> 0, remux_result |-> "none"]
\* number of successful requests in a log of segment requests
Fetched(log) == Cardinality({ j \in 1..Len(log) : log[j].ok })

(* ------------------------------ state ---------------------------------- *)
VARIABLES
    user_input,            \* line 160, after strip()
    pc,                    \* position of the script
    path,                  \* "none", "single" (line 183) or "session" (line 189)
    session_id, record_id, \* lines 167-168, 177-178, 194
    record_ids,            \* line 189
    i,                     \* line 194, position in record_ids (from 1)
    successful_downloads,  \* line 193
    success,               \* lines 183, 196: what download_m3u8 returned
    exit_code,             \* -1 while running, then the exit status
    report,                \* line 201: <<successful, total>>, <<>> before
    dir_exists, dir,       \* the destination directory 'downloads'
    m3u8_url,              \* line 79
    media_lines,           \* line 93
    index,                 \* line 105
    output_file,           \* line 100
    concat_txt,            \* what line 125-129 wrote into concat.txt
    manifest_resp,         \* line 56: the response get_m3u8_url received
    playlist,              \* lines 85-87: the playlist request and its text
    dl_calls,              \* history: prompts, file writes, remux calls of this download
    session_resp,          \* line 36: the response get_record_ids received
    raised,                \* where an exception that no handler catches was raised
    dir0,                  \* history: the directory before the run
    resolver_calls,        \* history: requests sent by get_record_ids
    attempts,              \* history: record ids download_m3u8 was called with
    results,               \* history: what each of these calls returned
    seg_log,               \* history: segment requests of the current download
    outputs,               \* history: output files of successful downloads
    prompts                \* history: output-file prompts issued

vars == << user_input, pc, path, session_id, record_id, record_ids, i,
           successful_downloads, success, exit_code, report, dir_exists, dir,
           m3u8_url, media_lines, index, output_file, concat_txt, dir0,
           resolver_calls, attempts, results, seg_log, outputs, prompts,
           manifest_resp, playlist, dl_calls, session_resp, raised >>

main_vars == << session_id, record_id, record_ids, i, successful_downloads, report >>
dl_vars == << m3u8_url, media_lines, index, output_file, concat_txt, seg_log,
             manifest_resp, playlist, dl_calls >>
hist_vars == << resolver_calls, attempts, results, outputs, prompts, session_resp,
               raised >>

Init ==
    /\ user_input \in UserInputs
    /\ dir_exists \in BOOLEAN
    /\ dir \in SUBSET Leftovers
    /\ (~dir_exists => dir = {})
    /\ dir0 = [exists |-> dir_exists, files |-> dir]
    /\ pc = "main"
    /\ path = "none"
    /\ session_id = None
    /\ record_id = None
    /\ record_ids = None
    /\ i = 0
    /\ successful_downloads = 0
    /\ success = FALSE
    /\ exit_code = -1
    /\ report = <<>>
    /\ m3u8_url = None
    /\ media_lines = <<>>
    /\ index = 0
    /\ output_file = <<>>
    /\ concat_txt = <<>>
    /\ resolver_calls = 0
    /\ attempts = <<>>
    /\ results = <<>>
    /\ seg_log = <<>>
    /\ outputs = {}
    /\ prompts = 0
    /\ manifest_resp = None
    /\ playlist = [status |-> "none"]
    /\ dl_calls = NoCalls
    /\ session_resp = None
    /\ raised = "no"

(* --------------------------- main execution ---------------------------- *)
\* lines 163-178 and the test of line 181
SessionOf(inp) ==
    IF inp.kind = "url" THEN parse_shopee_url(inp).val.session ELSE Some(inp.text)
RecordOf(inp) ==
    IF inp.kind = "url" THEN parse_shopee_url(inp).val.record ELSE None

\* line 160: the console is at end of input: input() has written its prompt and
\* raises EOFError, which no handler catches: traceback, status 1
MainEof ==
    /\ pc = "main"
    /\ user_input.kind = "eof"
    /\ raised' = "main_input"
    /\ exit_code' = 1
    /\ pc' = "exited"
    /\ UNCHANGED << user_input, path, main_vars, success, dir_exists, dir, dl_vars,
                    dir0, resolver_calls, attempts, results, outputs, prompts,
                    session_resp >>

\* lines 163-174: the URL does not parse or carries no session: exit(1)
MainBadUrl ==
    /\ pc = "main"
    /\ user_input.kind = "url"
    /\ ~ParsedOk(parse_shopee_url(user_input))
    /\ pc' = "exited"
    /\ exit_code' = 1
    /\ UNCHANGED << user_input, path, main_vars, success, dir_exists, dir, dl_vars,
                    dir0, hist_vars >>

\* lines 163-183: a record id came with the URL: download that record
MainSingle ==
    /\ pc = "main"
    /\ user_input.kind /= "eof"
    /\ user_input.kind = "url" => ParsedOk(parse_shopee_url(user_input))
    /\ UseRecord(RecordOf(user_input))
    /\ session_id' = SessionOf(user_input)
    /\ record_id' = RecordOf(user_input)
    /\ path' = "single"
    /\ pc' = "dl_begin"
    /\ UNCHANGED << user_input, record_ids, i, successful_downloads, report, success,
                    exit_code, dir_exists, dir, dl_vars, dir0, hist_vars >>

\* lines 163-189: no record id: the session is to be resolved
MainSession ==
    /\ pc = "main"
    /\ user_input.kind /= "eof"
    /\ user_input.kind = "url" => ParsedOk(parse_shopee_url(user_input))
    /\ ~UseRecord(RecordOf(user_input))
    /\ session_id' = SessionOf(user_input)
    /\ record_id' = None
    /\ path' = "session"
    /\ pc' = "resolve"
    /\ UNCHANGED << user_input, record_ids, i, successful_downloads, report, success,
                    exit_code, dir_exists, dir, dl_vars, dir0, hist_vars >>

\* lines 189-193, 202-204: one request; no records ends the script normally
Resolve(max) ==
    /\ pc = "resolve"
    /\ \E resp \in SessionResponses(max) :
          /\ session_resp' = Some(resp)
          /\ IF get_record_ids(resp) = AttributeError
             THEN \* the exception leaves the script: traceback, status 1
                  /\ raised' = "get_record_ids"
                  /\ record_ids' = record_ids
                  /\ pc' = "exited"
                  /\ i' = i
                  /\ exit_code' = 1
             ELSE /\ record_ids' = get_record_ids(resp)
                  /\ IF ~TruthySeq(get_record_ids(resp))
                     THEN \* lines 202-204: no records: the script ends
                          /\ raised' = raised
                          /\ pc' = "exited"
                          /\ i' = i
                          /\ exit_code' = 0
                     ELSE IF get_record_ids(resp) = NotSized
                     THEN \* line 192: len(record_ids) raises TypeError
                          /\ raised' = "main"
                          /\ pc' = "exited"
                          /\ i' = i
                          /\ exit_code' = 1
                     ELSE /\ raised' = raised
                          /\ pc' = "loop"
                          /\ i' = 1
                          /\ exit_code' = exit_code
    /\ resolver_calls' = resolver_calls + 1
    /\ successful_downloads' = 0
    /\ UNCHANGED << user_input, path, session_id, record_id, report, success,
                    dir_exists, dir, dl_vars, dir0, attempts, results, outputs, prompts >>

\* lines 194-196: the next record of the list is downloaded
LoopNext ==
    /\ pc = "loop"
    /\ i <= Len(record_ids.val)
    /\ record_id' = Some(record_ids.val[i])
    /\ pc' = "dl_begin"
    /\ UNCHANGED << user_input, path, session_id, record_ids, i, successful_downloads,
                    report, success, exit_code, dir_exists, dir, dl_vars, dir0,
                    hist_vars >>

\* line 201: the list is exhausted: report and end normally
Report ==
    /\ pc = "loop"
    /\ LoopDone(i, Len(record_ids.val))
    /\ report' = << successful_downloads, Len(record_ids.val) >>
    /\ exit_code' = 0
    /\ pc' = "exited"
    /\ UNCHANGED << user_input, path, session_id, record_id, record_ids, i,
                    successful_downloads, success, dir_exists, dir, dl_vars, dir0,
                    hist_vars >>

\* lines 183-186: back from the only download
ReturnSingle ==
    /\ pc = "dl_return"
    /\ path = "single"
    /\ exit_code' = SingleExit(success)
    /\ pc' = "exited"
    /\ results' = Append(results, success)
    /\ m3u8_url' = None
    /\ media_lines' = <<>>
    /\ index' = 0
    /\ output_file' = <<>>
    /\ seg_log' = <<>>
    /\ manifest_resp' = None
    /\ playlist' = [status |-> "none"]
    /\ dl_calls' = NoCalls
    /\ UNCHANGED << user_input, path, main_vars, success, dir_exists, dir, concat_txt,
                    dir0, resolver_calls, attempts, outputs, prompts, session_resp,
                    raised >>

\* lines 196-199: back from a download of the list
ReturnSession ==
    /\ pc = "dl_return"
    /\ path = "session"
    /\ successful_downloads' = Tally(successful_downloads, success)
    /\ i' = i + 1
    /\ pc' = "loop"
    /\ results' = Append(results, success)
    /\ m3u8_url' = None
    /\ media_lines' = <<>>
    /\ index' = 0
    /\ output_file' = <<>>
    /\ seg_log' = <<>>
    /\ manifest_resp' = None
    /\ playlist' = [status |-> "none"]
    /\ dl_calls' = NoCalls
    /\ UNCHANGED << user_input, path, session_id, record_id, record_ids, report,
                    success, exit_code, dir_exists, dir, concat_txt, dir0,
                    resolver_calls, attempts, outputs, prompts, session_resp, raised >>

(* ----------------------------- download_m3u8 --------------------------- *)
\* lines 74-77: the directory is created if missing and cleared of .ts files
DlBegin ==
    /\ pc = "dl_begin"
    /\ dir_exists' = TRUE
    /\ dir' = clear_ts_files(dir)
    /\ attempts' = Append(attempts, record_id.val)
    /\ seg_log' = <<>>
    /\ pc' = "dl_manifest"
    /\ UNCHANGED << user_input, path, main_vars, success, exit_code, m3u8_url,
                    media_lines, index, output_file, concat_txt, dir0, resolver_calls,
                    results, outputs, prompts, manifest_resp, playlist, dl_calls,
                    session_resp, raised >>

\* lines 79-82: one request; no URL or an empty URL returns False
DlManifest ==
    /\ pc = "dl_manifest"
    /\ \E resp \in ManifestResponses :
          /\ manifest_resp' = Some(resp)
          /\ IF get_m3u8_url(resp) = AttributeError
             THEN \* the exception leaves download_m3u8 and the script
                  /\ raised' = "get_m3u8_url"
                  /\ m3u8_url' = m3u8_url
                  /\ pc' = "exited"
                  /\ exit_code' = 1
                  /\ success' = success
             ELSE /\ raised' = raised
                  /\ m3u8_url' = get_m3u8_url(resp)
                  /\ exit_code' = exit_code
                  /\ IF TruthySeq(get_m3u8_url(resp))
                     THEN /\ pc' = "dl_playlist"
                          /\ success' = success
                     ELSE /\ pc' = "dl_return"
                          /\ success' = FALSE
    /\ UNCHANGED << user_input, path, main_vars, dir_exists, dir,
                    media_lines, index, output_file, concat_txt, seg_log, playlist,
                    dl_calls, dir0, resolver_calls, attempts, results, outputs, prompts,
                    session_resp >>

\* lines 84-90: the playlist request fails: return False
DlPlaylistFail ==
    /\ pc = "dl_playlist"
    /\ playlist' = [status |-> "fail"]
    /\ success' = FALSE
    /\ pc' = "dl_return"
    /\ UNCHANGED << user_input, path, main_vars, exit_code, dir_exists, dir, m3u8_url,
                    media_lines, index, output_file, concat_txt, seg_log,
                    manifest_resp, dl_calls, dir0, hist_vars >>

\* lines 84-97: the playlist arrives; no segment line returns False
DlPlaylist(max) ==
    /\ pc = "dl_playlist"
    /\ \E content \in Playlists(max) :
          /\ playlist' = [status |-> "ok", content |-> content]
          /\ media_lines' = MediaLines(content)
          /\ IF MediaLines(content) = <<>>
             THEN /\ pc' = "dl_return"
                  /\ success' = FALSE
             ELSE /\ pc' = "dl_prompt"
                  /\ success' = success
    /\ UNCHANGED << user_input, path, main_vars, exit_code, dir_exists, dir, m3u8_url,
                    index, output_file, concat_txt, seg_log, manifest_resp, dl_calls,
                    dir0, hist_vars >>

\* lines 99-102: the output name is asked; an empty line gives the default
DlPrompt ==
    /\ pc = "dl_prompt"
    /\ \E typed \in TypedNames :
          output_file' = IF typed /= <<>> THEN typed ELSE DefaultOutput(record_id.val)
    /\ prompts' = prompts + 1
    /\ dl_calls' = [dl_calls EXCEPT !.prompts = @ + 1]
    /\ index' = 0
    /\ pc' = "dl_segments"
    /\ UNCHANGED << user_input, path, main_vars, success, exit_code, dir_exists, dir,
                    m3u8_url, media_lines, concat_txt, seg_log, manifest_resp, playlist,
                    dir0, resolver_calls, attempts, results, outputs, session_resp,
                    raised >>

\* line 99: the console is at end of input: input() has written its prompt and
\* raises EOFError, which no handler catches: traceback, status 1
DlPromptEof ==
    /\ pc = "dl_prompt"
    /\ prompts' = prompts + 1
    /\ dl_calls' = [dl_calls EXCEPT !.prompts = @ + 1]
    /\ raised' = "input"
    /\ exit_code' = 1
    /\ pc' = "exited"
    /\ UNCHANGED << user_input, path, main_vars, success, dir_exists, dir, m3u8_url,
                    media_lines, index, output_file, concat_txt, seg_log,
                    manifest_resp, playlist, dir0, resolver_calls, attempts, results,
                    outputs, session_resp >>

\* lines 105-122: one iteration: the segment is requested, written on success
DlSegment ==
    /\ pc = "dl_segments"
    /\ \E ok \in BOOLEAN :
          /\ seg_log' = Append(seg_log,
                               [index |-> index,
                                url   |-> MediaUrl(m3u8_url.val, media_lines[index + 1]),
                                ok    |-> ok])
          /\ dir' = IF ok THEN dir \cup { SegmentName(index) } ELSE dir
          /\ dl_calls' = IF ok THEN [dl_calls EXCEPT !.writes = @ + 1] ELSE dl_calls
          /\ index' = NextIndex(index, ok, Len(media_lines))
          /\ pc' = IF NextIndex(index, ok, Len(media_lines)) < Len(media_lines)
                   THEN "dl_segments" ELSE "dl_concat"
    /\ UNCHANGED << user_input, path, main_vars, success, exit_code, dir_exists,
                    m3u8_url, media_lines, output_file, concat_txt, manifest_resp,
                    playlist, dir0, hist_vars >>

\* lines 124-129: concat.txt is written
DlConcat ==
    /\ pc = "dl_concat"
    /\ concat_txt' = ConcatList(dir, 0, Len(media_lines))
    /\ dir' = dir \cup { ConcatName }
    /\ dl_calls' = [dl_calls EXCEPT !.writes = @ + 1]
    /\ pc' = "dl_remux"
    /\ UNCHANGED << user_input, path, main_vars, success, exit_code, dir_exists,
                    m3u8_url, media_lines, index, output_file, seg_log, manifest_resp,
                    playlist, dir0, hist_vars >>

\* lines 131-141: the remux fails, with or without a partial output: return False
DlRemuxFail ==
    /\ pc = "dl_remux"
    /\ \E partial \in BOOLEAN :
          dir' = IF partial THEN dir \cup { output_file } ELSE dir
    /\ dl_calls' = [dl_calls EXCEPT !.remux = @ + 1, !.remux_result = "error"]
    /\ success' = DlResult(FALSE, Fetched(seg_log), Len(media_lines))
    /\ pc' = "dl_return"
    /\ UNCHANGED << user_input, path, main_vars, exit_code, dir_exists, m3u8_url,
                    media_lines, index, output_file, concat_txt, seg_log,
                    manifest_resp, playlist, dir0, hist_vars >>

\* lines 133-141: the tool cannot be started (no ffmpeg executable): the
\* FileNotFoundError is not an ffmpeg.Error and leaves the script
DlRemuxRaise ==
    /\ pc = "dl_remux"
    /\ dl_calls' = [dl_calls EXCEPT !.remux = @ + 1, !.remux_result = "raised"]
    /\ raised' = "ffmpeg.run"
    /\ exit_code' = 1
    /\ pc' = "exited"
    /\ UNCHANGED << user_input, path, main_vars, success, dir_exists, dir, m3u8_url,
                    media_lines, index, output_file, concat_txt, seg_log,
                    manifest_resp, playlist, dir0, resolver_calls, attempts, results,
                    outputs, prompts, session_resp >>

\* lines 131-154: the remux writes the output; the temporary files are removed
DlRemuxOk ==
    /\ pc = "dl_remux"
    /\ dl_calls' = [dl_calls EXCEPT !.remux = @ + 1, !.remux_result = "ok"]
    /\ dir' = FinalCleanup(dir \cup { output_file }, Len(media_lines))
    /\ concat_txt' = <<>>
    /\ IF FinalRemoveCalls(dir \cup { output_file }, Len(media_lines))
             \subseteq dir \cup { output_file }
       THEN \* the cleanup went through: return
            /\ success' = DlResult(TRUE, Fetched(seg_log), Len(media_lines))
            /\ outputs' = IF DlResult(TRUE, Fetched(seg_log), Len(media_lines))
                          THEN outputs \cup { output_file } ELSE outputs
            /\ pc' = "dl_return"
            /\ UNCHANGED << exit_code, raised >>
       ELSE \* os.remove of a missing file: the script dies of the exception
            /\ raised' = "cleanup"
            /\ exit_code' = 1
            /\ pc' = "exited"
            /\ UNCHANGED << success, outputs >>
    /\ UNCHANGED << user_input, path, main_vars, dir_exists, m3u8_url, media_lines,
                    index, output_file, seg_log, manifest_resp, playlist, dir0,
                    resolver_calls, attempts, results, prompts, session_resp >>

\* the script has ended
Exited ==
    /\ pc = "exited"
    /\ UNCHANGED vars

\* the steps of the script other than the two that receive a list
Step ==
    \/ MainEof
    \/ MainBadUrl
    \/ MainSingle
    \/ MainSession
    \/ LoopNext
    \/ Report
    \/ ReturnSingle
    \/ ReturnSession
    \/ DlBegin
    \/ DlManifest
    \/ DlPlaylistFail
    \/ DlPrompt
    \/ DlPromptEof
    \/ DlSegment
    \/ DlConcat
    \/ DlRemuxFail
    \/ DlRemuxRaise
    \/ DlRemuxOk
    \/ Exited

\* whole runs: record lists up to MaxRecords, playlists of at most one line
Next ==
    \/ Step
    \/ Resolve(MaxRecords)
    \/ DlPlaylist(1)

Spec == Init /\ [][Next]_vars

\* record downloads: playlists up to MaxLines, record lists of at most one record
NextDownload ==
    \/ Step
    \/ Resolve(1)
    \/ DlPlaylist(MaxLines)

\* the segment loop of lines 105-122 entered by the single-record path with a
\* playlist of one segment line: every playlist URL with every reference
InitUrl ==
    /\ user_input = [kind |-> "url", malformed |-> FALSE,
                     query |-> << Pair("record", "b"), Pair("session", "a") >>]
    /\ pc = "dl_segments"
    /\ path = "single"
    /\ session_id = Some("a")
    /\ record_id = Some("b")
    /\ record_ids = None
    /\ i = 0
    /\ successful_downloads = 0
    /\ success = FALSE
    /\ exit_code = -1
    /\ report = <<>>
    /\ dir_exists = TRUE
    /\ dir = {}
    /\ dir0 = [exists |-> FALSE, files |-> {}]
    /\ \E u \in PlaylistUrls, r \in SegmentRefs(MaxRef) :
          /\ manifest_resp = Some([kind |-> "body", err_code |-> 0, data_object |-> TRUE,
                                   has_url |-> TRUE, record_url |-> u])
          /\ m3u8_url = Some(u)
          /\ playlist = [status |-> "ok", content |-> << r >>]
          /\ media_lines = << r >>
    /\ index = 0
    /\ output_file = DefaultOutput("b")
    /\ concat_txt = <<>>
    /\ resolver_calls = 0
    /\ attempts = << "b" >>
    /\ results = <<>>
    /\ seg_log = <<>>
    /\ outputs = {}
    /\ prompts = 1
    /\ dl_calls = [NoCalls EXCEPT !.prompts = 1]
    /\ session_resp = None
    /\ raised = "no"
NextUrl == DlSegment
SpecUrl == InitUrl /\ [][NextUrl]_vars

SpecDownload == Init /\ [][NextDownload]_vars

\* the script is started where no downloads directory exists yet
InitLive == Init /\ ~dir_exists
\* whole runs in which every blocking call returns: the script is one thread
\* of control, so the statement after a call that has returned is executed
SpecLive == InitLive /\ [][Next]_vars /\ WF_vars(Next)

TypeOK ==
    /\ pc \in {"main", "resolve", "loop", "dl_begin", "dl_manifest", "dl_playlist",
               "dl_prompt", "dl_segments", "dl_concat", "dl_remux", "dl_return", "exited"}
    /\ exit_code \in {-1, 0, 1}
    /\ (exit_code /= -1) <=> (pc = "exited")

(* ------------------------- vocabulary of the claims -------------------- *)
\* the query string carries a non-blank value for key
HasParam(query, key) == \E j \in 1..Len(query) : query[j].k = key /\ query[j].v /= ""
\* the first non-blank value of key in the query string
FirstParam(query, key) ==
    query[CHOOSE j \in 1..Len(query) :
            /\ query[j].k = key /\ query[j].v /= ""
            /\ \A m \in 1..(j - 1) : ~(query[m].k = key /\ query[m].v /= "")].v

\* a platform URL that does not parse or carries no session
BadUrl ==
    /\ user_input.kind = "url"
    /\ (user_input.malformed \/ ~HasParam(user_input.query, "session"))
\* a platform URL that carries a session and a record id
UrlWithRecord ==
    /\ user_input.kind = "url"
    /\ ~user_input.malformed
    /\ HasParam(user_input.query, "session")
    /\ HasParam(user_input.query, "record")
\* the session resolver was asked and gave no record
ZeroRecords == path = "session" /\ resolver_calls > 0 /\ ~TruthySeq(record_ids)
\* the run was ended by an exception raised inside a download
Interrupted ==
    pc = "exited" /\ raised \in {"get_m3u8_url", "input", "ffmpeg.run", "cleanup"}
\* the session resolver gave a list of one record or more
RecordsFound == path = "session" /\ TruthySeq(record_ids) /\ record_ids /= NotSized

\* indices of the segments fetched successfully in the current download
FetchedOk == { seg_log[j].index : j \in { m \in 1..Len(seg_log) : seg_log[m].ok } }
\* the j-th smallest element of a set of numbers
Nth(S, j) == CHOOSE k \in S : Cardinality({ m \in S : m < k }) = j - 1
\* the number of successful downloads so far
Successes == Cardinality({ j \in 1..Len(results) : results[j] })
\* some file of the directory is named like a segment file
SegmentNames == { SegmentName(k) : k \in 0..9 }

(* ------------------------------- C1 ------------------------------------ *)
\* C1: once concat.txt is written, it lists exactly segment_i for the indices i
\* fetched successfully in this record download, in increasing index order;
\* nothing left by an earlier download or run is listed.
C1_ConcatManifest ==
    pc = "dl_remux" =>
        concat_txt = [ j \in 1..Cardinality(FetchedOk) |-> SegmentName(Nth(FetchedOk, j)) ]

\* three segment lines, the middle fetch failed, and an earlier run had left
\* segment_1.ts behind: concat.txt lists segment_0.ts and segment_2.ts
C1_Witness ==
    /\ pc = "dl_remux"
    /\ Len(media_lines) = 3
    /\ FetchedOk = {0, 2}
    /\ SegmentName(1) \in dir0.files
    /\ concat_txt = << SegmentName(0), SegmentName(2) >>

(* ------------------------------- C2 ------------------------------------ *)
\* C2: within one record download the segments are requested one by one in
\* manifest order, each exactly once: request j is for line j whatever the
\* outcome of the earlier requests, and a download that is over, by a return
\* or by an exception, has requested every segment line of its playlist.
C2_EachSegmentOnce ==
    /\ pc \in {"dl_segments", "dl_concat", "dl_remux"} =>
          /\ \A j \in 1..Len(seg_log) :
                /\ seg_log[j].index = j - 1
                /\ seg_log[j].url = MediaUrl(m3u8_url.val, media_lines[j])
          /\ pc = "dl_segments" => Len(seg_log) = index /\ index < Len(media_lines)
          /\ pc \in {"dl_concat", "dl_remux"} => Len(seg_log) = Len(media_lines)
    /\ ((pc = "dl_return" \/ Interrupted) /\ media_lines /= <<>>) =>
          /\ Len(seg_log) = Len(media_lines)
          /\ \A j \in 1..Len(seg_log) : seg_log[j].index = j - 1

(* ------------------------------- C3 ------------------------------------ *)
\* C3: in the session path with n >= 1 records, the downloads attempted are
\* the records of the list in order, each once, whatever the earlier results;
\* the report shows k/n with k the number of downloads that succeeded.
C3_SessionTally ==
    RecordsFound =>
        /\ Len(attempts) <= Len(record_ids.val)
        /\ attempts = SubSeq(record_ids.val, 1, Len(attempts))
        /\ pc = "exited" =>
              /\ attempts = record_ids.val
              /\ Len(results) = Len(record_ids.val)
              /\ report = << Successes, Len(record_ids.val) >>

(* ------------------------------- C4 ------------------------------------ *)
\* C4: the exit status is non-zero when the input is unparseable and when the
\* session resolver yields zero records; it is zero when records were found
\* and downloaded, whatever the per-record failures.
C4_ExitStatus ==
    pc = "exited" =>
        /\ (BadUrl \/ ZeroRecords) => exit_code /= 0
        /\ (path = "session" /\ TruthySeq(record_ids)) => exit_code = 0
        /\ (path = "single" /\ success) => exit_code = 0

(* ------------------------------- C5 ------------------------------------ *)
\* C5: a non-zero exit comes only from an input-parsing failure or
\* from zero resolvable records, never from a failed record download.
C5_OnlyInputOrNoRecords ==
    (pc = "exited" /\ exit_code /= 0) => (BadUrl \/ ZeroRecords)

(* ------------------------------- C6 ------------------------------------ *)
\* C6: every output file of a successful record download is still in the
\* destination directory when the run ends.
C6_OutputSurvives ==
    pc = "exited" => outputs \subseteq dir

(* ------------------------------- C7 ------------------------------------ *)
\* C7: after the initial cleanup of a record download and before the manifest
\* is resolved, the directory holds no segment file and no concat.txt.
C7_CleanStart ==
    pc = "dl_manifest" => (ConcatName \notin dir /\ dir \cap SegmentNames = {})

(* ------------------------------- C8 ------------------------------------ *)
\* C8 as stated: when a record download returns success the directory holds
\* no file named segment_<index>.ts and no concat.txt.
C8_NoSegmentNoConcat ==
    (pc = "dl_return" /\ success) => (ConcatName \notin dir /\ dir \cap SegmentNames = {})

\* C8 as amended: when a record download returns success the directory holds
\* no concat.txt and no file named segment_<index>.ts, except the output file
\* itself when the user named it segment_<k>.ts with k not below the number
\* of segment lines.
C8_NoTemporaries ==
    (pc = "dl_return" /\ success) =>
        /\ ConcatName \notin dir
        /\ \A k \in 0..9 :
              SegmentName(k) \in dir =>
                  (output_file = SegmentName(k) /\ k >= Len(media_lines))

\* a successful download that fetched segments, in a directory where an
\* earlier run had left segment_1.ts and concat.txt
C8_Witness ==
    /\ pc = "dl_return"
    /\ success
    /\ FetchedOk = {0, 1}
    /\ dir0.files = { SegmentName(1), ConcatName }
    /\ dir = { output_file }

(* ------------------------------- C9 ------------------------------------ *)
\* C9: when the URL carries a session and a record id, the session resolver
\* is never called and the only download attempted is that of this record.
C9_OnlyThatRecord ==
    UrlWithRecord =>
        /\ resolver_calls = 0
        /\ Len(attempts) <= 1
        /\ \A j \in 1..Len(attempts) : attempts[j] = FirstParam(user_input.query, "record")
        /\ pc = "exited" => Len(attempts) = 1

\* the run of such a URL has ended after the download of its record
C9_Witness ==
    /\ pc = "exited"
    /\ UrlWithRecord
    /\ attempts = << "b" >>
    /\ results = << TRUE >>

(* ------------------------------- C10 ----------------------------------- *)
\* C10: when the URL does not parse or carries no session, the run ends with
\* status 1 before anything is requested, and the destination directory is
\* neither created nor modified.
C10_BadUrlHalts ==
    BadUrl =>
        /\ pc \in {"main", "exited"}
        /\ resolver_calls = 0
        /\ attempts = <<>>
        /\ seg_log = <<>>
        /\ dir_exists = dir0.exists
        /\ dir = dir0.files
        /\ pc = "exited" => exit_code = 1

\* a URL with a record id but no session has ended the run; the directory
\* still does not exist
C10_Witness ==
    /\ pc = "exited"
    /\ BadUrl
    /\ ~user_input.malformed
    /\ HasParam(user_input.query, "record")
    /\ ~dir_exists

(* ------------------------------- C11 ----------------------------------- *)
\* the session resolver's request did not end in a success response
SessionRequestFailed ==
    /\ session_resp.some
    /\ \/ session_resp.val.kind \in {"net", "json", "notobject"}
       \/ (session_resp.val.kind = "body" /\ session_resp.val.err_code /= 0)

\* C11: when the session request ends in anything but a success response (an
\* API error, a network error, a body that is not the JSON expected),
\* get_record_ids returns no records without raising, after exactly one
\* request, and no download is attempted.
C11_NoRecordsNoDownload ==
    /\ resolver_calls <= 1
    /\ SessionRequestFailed =>
          /\ ~TruthySeq(record_ids)
          /\ raised = "no"
          /\ resolver_calls = 1
          /\ attempts = <<>>
          /\ pc = "exited"

(* ------------------------------- C12 ----------------------------------- *)
\* the playlist of the current download arrived and has a segment line
HasSegmentLine ==
    /\ playlist.status = "ok"
    /\ \E j \in 1..Len(playlist.content) : EndsWith(Strip(playlist.content[j]), ".ts")

\* C12 as stated: at the end of the run one output-file prompt was issued for
\* each record processed.
C12_OnePromptPerRecord ==
    pc = "exited" => prompts = Len(attempts)

\* C12 as amended: at most one output-file prompt is issued per record
\* processed: exactly one for a record whose playlist was fetched and has a
\* segment line, none for a record whose manifest resolution or playlist
\* fetch failed or whose playlist has no segment line.
C12_PromptOnlyWithSegments ==
    /\ prompts <= Len(attempts)
    /\ dl_calls.prompts <= 1
    /\ pc = "dl_return" => dl_calls.prompts = (IF HasSegmentLine THEN 1 ELSE 0)

\* the first record was prompted for; the second, whose playlist has no
\* segment line, returns without a prompt
C12_Witness ==
    /\ pc = "dl_return"
    /\ Len(attempts) = 2
    /\ prompts = 1
    /\ playlist.status = "ok"
    /\ ~HasSegmentLine
    /\ dl_calls.prompts = 0

(* ------------------------------- C13 ----------------------------------- *)
\* an absolute URL: a scheme followed by //
SchemeTokens == {"http:", "https:", "ftp:"}
IsAbsoluteUrl(ref) ==
    Len(ref) >= 3 /\ ref[1] \in SchemeTokens /\ ref[2] = "/" /\ ref[3] = "/"
\* base with everything after its rightmost slash replaced by ref
IsReplacedAfterLastSlash(url, base, ref) ==
    \E k \in 1..Len(base) :
        /\ base[k] = "/"
        /\ \A j \in (k + 1)..Len(base) : base[j] /= "/"
        /\ url = SubSeq(base, 1, k) \o ref
\* the reference begins with the characters http
BeginsWithHttp(ref) == ref[1] \in {"http:", "https:", "httpx"}

\* C13 as stated: the URL fetched for a segment is the reference itself when
\* the reference is an absolute URL, and otherwise the playlist URL with
\* everything after its rightmost slash replaced by the reference.
C13_AbsoluteOrReplaced ==
    \A j \in 1..Len(seg_log) :
        IF IsAbsoluteUrl(media_lines[seg_log[j].index + 1])
        THEN seg_log[j].url = media_lines[seg_log[j].index + 1]
        ELSE IsReplacedAfterLastSlash(seg_log[j].url, m3u8_url.val,
                                      media_lines[seg_log[j].index + 1])

\* C13 as amended: the URL fetched for a segment is the reference itself when
\* the reference begins with the characters http, and otherwise the playlist
\* URL with everything after its rightmost slash replaced by the reference.
C13_HttpPrefixOrReplaced ==
    \A j \in 1..Len(seg_log) :
        IF BeginsWithHttp(media_lines[seg_log[j].index + 1])
        THEN seg_log[j].url = media_lines[seg_log[j].index + 1]
        ELSE IsReplacedAfterLastSlash(seg_log[j].url, m3u8_url.val,
                                      media_lines[seg_log[j].index + 1])

\* https://cdn/path/master.m3u8 and seg.ts gave https://cdn/path/seg.ts
C13_Witness ==
    /\ m3u8_url = Some(PlaylistUrl)
    /\ media_lines = << <<"seg", ".ts">> >>
    /\ Len(seg_log) = 1
    /\ seg_log[1].url = <<"https:", "/", "/", "cdn", "/", "path", "/", "seg", ".ts">>

(* ------------------------------- C14 ----------------------------------- *)
\* the manifest response of the current download is a success carrying record_url
ManifestSuccess ==
    /\ manifest_resp.some
    /\ manifest_resp.val.kind = "body"
    /\ manifest_resp.val.err_code = 0
    /\ manifest_resp.val.data_object
    /\ manifest_resp.val.has_url
\* it is an API failure, a network failure or a JSON error
ManifestRequestFailed ==
    /\ manifest_resp.some
    /\ \/ manifest_resp.val.kind \in {"net", "json"}
       \/ (manifest_resp.val.kind = "body" /\ manifest_resp.val.err_code /= 0)

\* C14: for a success response get_m3u8_url returns record_url as it is, the
\* empty string included; for an API failure, a network failure or a JSON
\* error it returns None.
C14_RecordUrlVerbatim ==
    /\ ManifestSuccess => m3u8_url = [some |-> TRUE, val |-> manifest_resp.val.record_url]
    /\ ManifestRequestFailed => m3u8_url = [some |-> FALSE]

\* a success response with an empty record_url was returned as the empty string
C14_Witness ==
    /\ pc = "dl_return"
    /\ ManifestSuccess
    /\ manifest_resp.val.record_url = <<>>
    /\ m3u8_url = [some |-> TRUE, val |-> <<>>]

(* ------------------------------- C15 ----------------------------------- *)
\* C15: no cleanup step raises, and a cleanup step run again on the directory
\* it has left changes nothing: clear_ts_files after clear_ts_files, and the
\* final cleanup after the final cleanup, have nothing to remove.
C15_CleanupIdempotent ==
    /\ raised /= "cleanup"
    /\ pc = "dl_manifest" => clear_ts_files(dir) = dir
    /\ (pc = "dl_return" /\ dl_calls.remux_result = "ok") =>
          /\ FinalRemoveCalls(dir, Len(media_lines)) = {}
          /\ FinalCleanup(dir, Len(media_lines)) = dir

\* the final cleanup of a download in which a segment was skipped went through,
\* and the directory it left has nothing more to clean
C15_Witness ==
    /\ pc = "dl_return"
    /\ dl_calls.remux_result = "ok"
    /\ \E j \in 1..Len(seg_log) : ~seg_log[j].ok
    /\ raised = "no"
    /\ FinalCleanup(dir, Len(media_lines)) = dir
    /\ clear_ts_files(dir) = dir

(* ------------------------------- C16 ----------------------------------- *)
\* the current download met a manifest-level failure: the manifest answer gave
\* no URL or an empty one, the playlist request failed, or the playlist has no
\* segment line
ManifestLevelFailure ==
    /\ manifest_resp.some
    /\ \/ ~ManifestSuccess
       \/ (ManifestSuccess /\ manifest_resp.val.record_url = <<>>)
       \/ playlist.status = "fail"
       \/ (playlist.status = "ok" /\ ~HasSegmentLine)

\* C16: a download that met a manifest-level failure returns False without having
\* requested a segment, written a segment file or concat.txt, or started the
\* remux; and the failure of one record of a session stops no other record.
C16_FailsBeforeSegments ==
    /\ ManifestLevelFailure =>
          /\ pc = "dl_return"
          /\ ~success
          /\ seg_log = <<>>
          /\ dl_calls.writes = 0
          /\ dl_calls.remux = 0
    /\ (pc = "exited" /\ RecordsFound) =>
          attempts = record_ids.val

(* ------------------------------- C17 ----------------------------------- *)
\* C17: a download whose playlist has a segment line starts the remux exactly
\* once, however many segment requests failed: when it is over, by a return or
\* by an exception, the remux has been started once; and it returns True
\* exactly when that remux succeeded.
C17_RemuxOnceDecides ==
    /\ dl_calls.remux <= 1
    /\ ((pc = "dl_return" \/ Interrupted) /\ HasSegmentLine) => dl_calls.remux = 1
    /\ (pc = "dl_return" /\ HasSegmentLine) =>
          (success <=> dl_calls.remux_result = "ok")

(* ------------------------------- C18 ----------------------------------- *)
\* a download is in progress
Downloading ==
    pc \in {"dl_manifest", "dl_playlist", "dl_prompt", "dl_segments", "dl_concat",
            "dl_remux", "dl_return"}
\* every download begun before the current one has returned, and the requests
\* on record are those of the record being downloaded
OneDownloadAtATime ==
    /\ Len(attempts) = Len(results) + (IF Downloading \/ Interrupted THEN 1 ELSE 0)
    /\ (Downloading \/ Interrupted) => record_id.val = attempts[Len(attempts)]
    /\ ~(Downloading \/ Interrupted) => (seg_log = <<>> /\ ~manifest_resp.some)
    /\ RecordsFound =>
          /\ Len(attempts) <= Len(record_ids.val)
          /\ \A k \in 1..Len(attempts) : attempts[k] = record_ids.val[k]

\* C18: when every blocking call returns, the run reaches its end, and at no
\* moment is a request of a record issued before the download of the record
\* before it has returned.
C18_SequentialAndTerminates ==
    /\ []OneDownloadAtATime
    /\ <>(pc = "exited")

\* a session of two records ended after two downloads, one after the other
C18_Witness ==
    /\ pc = "exited"
    /\ RecordsFound
    /\ Len(record_ids.val) = 2
    /\ Len(attempts) = 2
    /\ Len(results) = 2

====
